---- MODULE Spec2Model ----
(***************************************************************************)
(* Model of src/main.cc: hexCharToByte, utf8CodePointType, hexCharToValue  *)
(* and hexCodepointToUtf8String.                                           *)
(*                                                                         *)
(* Platform conventions of the model (the usual x86-64 / gcc, clang       *)
(* build): char is a signed 8 bit type, int is 32 bit two's complement,    *)
(* narrowing conversions and left shifts wrap modulo 2^w.  A char is       *)
(* modelled by its integer value, a std::string / std::string_view by a    *)
(* sequence of chars, a std::optional by <<>> (empty) or <<v>>.            *)
(*                                                                         *)
(* TLC integers are 32 bit, so an int of the program is a TLC integer,     *)
(* and a value of a wider or unsigned type T is kept as its two's          *)
(* complement bit pattern, a sequence of sizeof(T)*2 nibbles, most         *)
(* significant first.                                                      *)
(***************************************************************************)
EXTENDS Integers, Sequences, FiniteSets, TLC

VARIABLES pc, c, codepoint, hexChar, T, retByte, retType, retValue, res, prevRes, oobRead

vars == <<pc, c, codepoint, hexChar, T, retByte, retType, retValue, res, prevRes, oobRead>>

(***************************************************************************)
(* Bounds of the model.                                                    *)
(***************************************************************************)
\* longest input string handed to the functions (16 digits fill a 64 bit T)
MaxLen == 17
\* every string over FullChars up to this length is an input
MaxFull == 6
\* the classifier is called on every int within Delta of each plane boundary
Delta == 3

(***************************************************************************)
(* 32 bit int arithmetic.                                                  *)
(***************************************************************************)
IntMax == 2147483647
IntMin == (-2147483647) - 1

\* bits 0..30 of a 32 bit int, as a natural number
Low31(x) == IF x >= 0 THEN x ELSE (x + 2147483647) + 1

\* the int with sign bit `neg` and bits 0..30 `low`
FromBits(neg, low) == IF neg THEN (low - 2147483647) - 1 ELSE low

RECURSIVE AndNat(_, _)
AndNat(a, b) ==
    IF a = 0 \/ b = 0 THEN 0
    ELSE (a % 2) * (b % 2) + 2 * AndNat(a \div 2, b \div 2)

RECURSIVE OrNat(_, _)
OrNat(a, b) ==
    IF a = 0 THEN b
    ELSE IF b = 0 THEN a
    ELSE (IF a % 2 = 1 \/ b % 2 = 1 THEN 1 ELSE 0) + 2 * OrNat(a \div 2, b \div 2)

\* x & y on ints
BitAnd(x, y) == FromBits(x < 0 /\ y < 0, AndNat(Low31(x), Low31(y)))

\* x | y on ints
BitOr(x, y) == FromBits(x < 0 \/ y < 0, OrNat(Low31(x), Low31(y)))

\* x << n on ints, 0 <= n <= 30, the result wrapped to 32 bits
Shl(x, n) ==
    IF n = 0 THEN x
    ELSE FromBits((Low31(x) \div (2 ^ (31 - n))) % 2 = 1,
                  (Low31(x) % (2 ^ (31 - n))) * (2 ^ n))

\* x >> n on ints, 0 <= n <= 30 (arithmetic shift)
Shr(x, n) ==
    IF n = 0 THEN x
    ELSE IF x >= 0 THEN x \div (2 ^ n)
    ELSE (Low31(x) \div (2 ^ n)) - (2 ^ (31 - n))

\* the conversion int -> char (signed, 8 bit)
ToChar(x) ==
    LET u == Low31(x) % 256
    IN  IF u >= 128 THEN u - 256 ELSE u

\* the byte (0..255) stored in a char
ByteOf(ch) == IF ch < 0 THEN ch + 256 ELSE ch

(***************************************************************************)
(* Character literals used by the source.                                  *)
(***************************************************************************)
Chr0 == 48
Chr9 == 57
ChrLa == 97
ChrLf == 102
ChrUA == 65
ChrUF == 70

\* convert a half byte in hex notation into its value representation
hexCharToByte(ch) ==
    ToChar(IF ch >= Chr0 /\ ch <= Chr9 THEN ch - Chr0
           ELSE IF ch >= ChrLa /\ ch <= ChrLf THEN ch - (ChrLa - 10)
           ELSE IF ch >= ChrUA /\ ch <= ChrUF THEN ch - (ChrUA - 10)
           ELSE -1)

(***************************************************************************)
(* UTF-8 byte prefixes: char constants initialised from 0x80 .. 0xF0.      *)
(***************************************************************************)
Utf8ContPrefix == ToChar(128)
Utf8LatinPrefix == ToChar(192)
Utf8MultiLingPrefix == ToChar(224)
Utf8ExtendedPrefix == ToChar(240)

\* enum class Utf8CPType
Utf8CPType == {"Ascii", "Latin", "MultiLingual", "Extended", "Invalid"}

\* utf8CodePointType without the surrogate gap in the third range
utf8CodePointType_surrogatesAllowed(cp) ==
    IF cp >= 0 /\ cp <= 127 THEN "Ascii"
    ELSE IF cp >= 128 /\ cp <= 2047 THEN "Latin"
    ELSE IF cp >= 2048 /\ cp <= 65535 THEN "MultiLingual"
    ELSE IF cp >= 65536 /\ cp <= 1114111 THEN "Extended"
    ELSE "Invalid"

\* utf8CodePointType with codepoint <= 0x0D800 for codepoint < 0x0D800
utf8CodePointType_offByOne(cp) ==
    IF cp >= 0 /\ cp <= 127 THEN "Ascii"
    ELSE IF cp >= 128 /\ cp <= 2047 THEN "Latin"
    ELSE IF (cp >= 2048 /\ cp <= 55296) \/ (cp > 57343 /\ cp <= 65535) THEN "MultiLingual"
    ELSE IF cp >= 65536 /\ cp <= 1114111 THEN "Extended"
    ELSE "Invalid"

utf8CodePointType(cp) ==
    IF cp >= 0 /\ cp <= 127 THEN "Ascii"
    ELSE IF cp >= 128 /\ cp <= 2047 THEN "Latin"
    ELSE IF (cp >= 2048 /\ cp < 55296) \/ (cp > 57343 /\ cp <= 65535) THEN "MultiLingual"
    ELSE IF cp >= 65536 /\ cp <= 1114111 THEN "Extended"
    ELSE "Invalid"

(***************************************************************************)
(* hexCharToValue<T>.  A type T is [size |-> sizeof(T), signed |-> ...].   *)
(***************************************************************************)
IntegralTypes == [size : {1, 2, 4, 8}, signed : BOOLEAN]
Int32T == [size |-> 4, signed |-> TRUE]

\* nibble k (0 = least significant) of the sign extension of the int x
NibbleOf(x, k) ==
    IF k < 7 THEN (Low31(x) \div (16 ^ k)) % 16
    ELSE IF k = 7 THEN (Low31(x) \div (16 ^ 7)) + (IF x < 0 THEN 8 ELSE 0)
    ELSE IF x < 0 THEN 15 ELSE 0

\* the conversion int -> T of `return cp;`: the value of type T as its
\* bit pattern, sizeof(T)*2 nibbles, most significant first
ConvertTo(t, x) == [i \in 1..(t.size * 2) |-> NibbleOf(x, t.size * 2 - i)]

\* the int held by a value of type int32_t
IntOf(v) ==
    FromBits(v[1] >= 8,
             (v[1] % 8) * (16 ^ 7) + v[2] * (16 ^ 6) + v[3] * (16 ^ 5) + v[4] * (16 ^ 4)
               + v[5] * (16 ^ 3) + v[6] * (16 ^ 2) + v[7] * 16 + v[8])

\* the loop of hexCharToValue from character i on, with the locals cp and shift
RECURSIVE hexCharToValueLoop(_, _, _, _)
hexCharToValueLoop(s, i, cp, shift) ==
    IF i > Len(s) THEN <<cp>>
    ELSE LET b == hexCharToByte(s[i])
         IN  IF b < 0 THEN <<>>
             ELSE hexCharToValueLoop(s, i + 1, BitOr(Shl(cp, shift), b), 4)

hexCharToValue(t, s) ==
    LET l == t.size * 2
    IN  IF Len(s) = 0 \/ Len(s) % 2 # 0 \/ Len(s) > l THEN <<>>
        ELSE LET cp == hexCharToValueLoop(s, 1, 0, 0)
             IN  IF cp = <<>> THEN <<>> ELSE <<ConvertTo(t, cp[1])>>

(***************************************************************************)
(* hexCodepointToUtf8String.  hexChar[i] with i >= hexChar.length() reads  *)
(* past the view: the char it yields is whatever the memory holds, given   *)
(* by mem[i].                                                              *)
(***************************************************************************)
At(s, i, mem) == IF i < Len(s) THEN s[i + 1] ELSE mem[i]

\* the positions of hexChar each case of the switch reads
ReadIndices(cpType) ==
    CASE cpType = "Latin" -> {1, 2, 3}
      [] cpType = "MultiLingual" -> {0, 1, 2, 3}
      [] cpType = "Extended" -> {0, 1, 2, 3, 4, 5}
      [] OTHER -> {}

\* the positions hexCodepointToUtf8String(s) reads at or beyond s.length()
OobReads(s) ==
    LET cp == hexCharToValue(Int32T, s)
    IN  IF cp = <<>> THEN {}
        ELSE {i \in ReadIndices(utf8CodePointType(IntOf(cp[1]))) : i >= Len(s)}

caseAscii(cp) == <<ToChar(cp)>>

\* caseLatin with the >> 2 of byte 1 left out
caseLatin_noShift(s, mem) ==
    LET c1 == hexCharToByte(At(s, 1, mem))
        c2 == hexCharToByte(At(s, 2, mem))
        c3 == hexCharToByte(At(s, 3, mem))
    IN  << ToChar(BitOr(BitOr(Utf8LatinPrefix, Shl(BitAnd(c1, 7), 2)), BitAnd(c2, 12))),
           ToChar(BitOr(BitOr(Utf8ContPrefix, Shl(BitAnd(c2, 3), 4)), BitAnd(c3, 15))) >>

caseLatin(s, mem) ==
    LET c1 == hexCharToByte(At(s, 1, mem))
        c2 == hexCharToByte(At(s, 2, mem))
        c3 == hexCharToByte(At(s, 3, mem))
    IN  << ToChar(BitOr(BitOr(Utf8LatinPrefix, Shl(BitAnd(c1, 7), 2)), Shr(BitAnd(c2, 12), 2))),
           ToChar(BitOr(BitOr(Utf8ContPrefix, Shl(BitAnd(c2, 3), 4)), BitAnd(c3, 15))) >>

\* caseMultiLingual with the lead prefix of the Latin case
caseMultiLingual_latinPrefix(s, mem) ==
    LET c0 == hexCharToByte(At(s, 0, mem))
        c1 == hexCharToByte(At(s, 1, mem))
        c2 == hexCharToByte(At(s, 2, mem))
        c3 == hexCharToByte(At(s, 3, mem))
    IN  << ToChar(BitOr(Utf8LatinPrefix, BitAnd(c0, 15))),
           ToChar(BitOr(BitOr(Utf8ContPrefix, Shl(BitAnd(c1, 15), 2)), Shr(BitAnd(c2, 12), 2))),
           ToChar(BitOr(BitOr(Utf8ContPrefix, Shl(BitAnd(c2, 3), 4)), BitAnd(c3, 15))) >>

caseMultiLingual(s, mem) ==
    LET c0 == hexCharToByte(At(s, 0, mem))
        c1 == hexCharToByte(At(s, 1, mem))
        c2 == hexCharToByte(At(s, 2, mem))
        c3 == hexCharToByte(At(s, 3, mem))
    IN  << ToChar(BitOr(Utf8MultiLingPrefix, BitAnd(c0, 15))),
           ToChar(BitOr(BitOr(Utf8ContPrefix, Shl(BitAnd(c1, 15), 2)), Shr(BitAnd(c2, 12), 2))),
           ToChar(BitOr(BitOr(Utf8ContPrefix, Shl(BitAnd(c2, 3), 4)), BitAnd(c3, 15))) >>

\* byte 1 of the Extended case with the << 2 of the u bit left out
extendedByte1_noShift(c0, c1) ==
    ToChar(BitOr(ToChar(BitOr(Utf8ExtendedPrefix, BitAnd(c0, 1))),
                 Shr(BitAnd(c1, 12), 2)))

\* byte 1 of the Extended case, parenthesised as the source has it:
\* char(Utf8ExtendedPrefix | ((c0 & 1) << 2)) | ((c1 & 12) >> 2),
\* an int that push_back(char) narrows
extendedByte1(c0, c1) ==
    ToChar(BitOr(ToChar(BitOr(Utf8ExtendedPrefix, Shl(BitAnd(c0, 1), 2))),
                 Shr(BitAnd(c1, 12), 2)))

caseExtended(s, mem) ==
    LET c0 == hexCharToByte(At(s, 0, mem))
        c1 == hexCharToByte(At(s, 1, mem))
        c2 == hexCharToByte(At(s, 2, mem))
        c3 == hexCharToByte(At(s, 3, mem))
        c4 == hexCharToByte(At(s, 4, mem))
        c5 == hexCharToByte(At(s, 5, mem))
    IN  << extendedByte1(c0, c1),
           ToChar(BitOr(BitOr(Utf8ContPrefix, Shl(BitAnd(c1, 3), 4)), BitAnd(c2, 15))),
           ToChar(BitOr(BitOr(Utf8ContPrefix, Shl(BitAnd(c3, 15), 2)), Shr(BitAnd(c4, 12), 2))),
           ToChar(BitOr(BitOr(Utf8ContPrefix, Shl(BitAnd(c4, 3), 4)), BitAnd(c5, 15))) >>

hexCodepointToUtf8String(s, mem) ==
    LET cp == hexCharToValue(Int32T, s)
    IN  IF cp = <<>> THEN <<>>
        ELSE LET cpType == utf8CodePointType(IntOf(cp[1]))
             IN  CASE cpType = "Ascii" -> caseAscii(IntOf(cp[1]))
                   [] cpType = "Latin" -> caseLatin(s, mem)
                   [] cpType = "MultiLingual" -> caseMultiLingual(s, mem)
                   [] cpType = "Extended" -> caseExtended(s, mem)
                   [] cpType = "Invalid" -> <<>>

(***************************************************************************)
(* Inputs.                                                                 *)
(***************************************************************************)
\* the characters of the input strings: '0' '1' '7' '8' 'D' 'E' 'F' 'd' 'f'
\* and the non-digit 'G'
InputChars == {48, 49, 55, 56, 68, 69, 70, 100, 102, 71}

\* the characters that fill the tail of an input string: '0', 'F', 'f'
FillChars == {48, 70, 102}

Rep(ch, n) == [i \in 1..n |-> ch]

\* every string of at most two characters of InputChars
Windows == {<<>>} \cup {<<a>> : a \in InputChars} \cup {<<a, b>> : a, b \in InputChars}

\* i leading '0', any two characters, j times a fill character, of every
\* length up to MaxLen ("0080", "D7FF", "10FFFF", "0000E8", "80000000",
\* "1G", "000000000", ...)
WindowStrings ==
    UNION { UNION { { Rep(Chr0, i) \o w \o Rep(q, j) : j \in 0..(MaxLen - Len(w) - i) }
                    : i \in 0..(MaxLen - Len(w)) }
            : w \in Windows, q \in FillChars }

\* '0' '1' '6' 'F': every bit of a digit takes both values
FullChars == {48, 49, 54, 70}

\* every string over FullChars of length up to MaxFull
FullStrings == UNION { [1..n -> FullChars] : n \in 0..MaxFull }

InputStrings == WindowStrings \cup FullStrings

\* every value of a char
AllChars == -128..127

\* what the memory past a string_view is taken to hold: a NUL (the
\* terminator of a literal), '0', '6', '9', 'A'
OobChars == {0, 48, 54, 57, 65}

\* the plane boundaries of utf8CodePointType and the ends of int32_t
Boundaries == {0, 128, 2048, 55296, 57344, 65536, 1114112}
CodePointArgs ==
    {b + d : b \in Boundaries, d \in (-Delta - 1)..Delta}
      \cup {IntMin + d : d \in 0..Delta} \cup {IntMax - d : d \in 0..Delta}

\* the other spelling of a letter a-f / A-F; every other char as it is
SwapCase(ch) ==
    IF ch >= ChrLa /\ ch <= ChrLf THEN ch - (ChrLa - ChrUA)
    ELSE IF ch >= ChrUA /\ ch <= ChrUF THEN ch + (ChrLa - ChrUA)
    ELSE ch

SwapCaseStr(s) == [i \in 1..Len(s) |-> SwapCase(s[i])]

(***************************************************************************)
(* The state machine: a caller holds one argument and calls one of the     *)
(* functions on it.                                                        *)
(***************************************************************************)
NoResults ==
    /\ retByte = 0 /\ retType = "Invalid" /\ retValue = <<>>
    /\ res = <<>> /\ prevRes = <<>> /\ oobRead = {}

Init ==
    \/ /\ pc = "char"
       /\ c \in AllChars
       /\ codepoint = 0 /\ hexChar = <<>> /\ T = Int32T
       /\ NoResults
    \/ /\ pc = "int"
       /\ codepoint \in CodePointArgs
       /\ c = 0 /\ hexChar = <<>> /\ T = Int32T
       /\ NoResults
    \/ /\ pc = "str"
       /\ hexChar \in InputStrings
       /\ c = 0 /\ codepoint = 0 /\ T = Int32T
       /\ NoResults

\* the callers that pass at least four characters, the length the Latin
\* and MultiLingual cases take for granted ("hexstr has length 4")
InitFourDigits == Init /\ (pc = "str" => Len(hexChar) >= 4)

Call_hexCharToByte ==
    /\ pc = "char"
    /\ retByte' = hexCharToByte(c)
    /\ pc' = "hexCharToByte"
    /\ UNCHANGED <<c, codepoint, hexChar, T, retType, retValue, res, prevRes, oobRead>>

Call_utf8CodePointType ==
    /\ pc = "int"
    /\ retType' = utf8CodePointType(codepoint)
    /\ pc' = "utf8CodePointType"
    /\ UNCHANGED <<c, codepoint, hexChar, T, retByte, retValue, res, prevRes, oobRead>>

Call_hexCharToValue ==
    /\ pc = "str"
    /\ \E t \in IntegralTypes :
         /\ T' = t
         /\ retValue' = hexCharToValue(t, hexChar)
    /\ pc' = "hexCharToValue"
    /\ UNCHANGED <<c, codepoint, hexChar, retByte, retType, res, prevRes, oobRead>>

Call_hexCodepointToUtf8String ==
    /\ pc = "str"
    /\ \E mem \in [OobReads(hexChar) -> OobChars] :
         res' = hexCodepointToUtf8String(hexChar, mem)
    /\ oobRead' = OobReads(hexChar)
    /\ pc' = "hexCodepointToUtf8String"
    /\ UNCHANGED <<c, codepoint, hexChar, T, retByte, retType, retValue, prevRes>>

\* a second call, on the same digits with the letters in the other case,
\* held in another buffer
Call_hexCodepointToUtf8String_otherCase ==
    /\ pc = "hexCodepointToUtf8String"
    /\ hexChar' = SwapCaseStr(hexChar)
    /\ prevRes' = res
    /\ \E mem \in [OobReads(hexChar') -> OobChars] :
         res' = hexCodepointToUtf8String(hexChar', mem)
    /\ oobRead' = OobReads(hexChar')
    /\ pc' = "otherCase"
    /\ UNCHANGED <<c, codepoint, T, retByte, retType, retValue>>

Next ==
    \/ Call_hexCharToByte
    \/ Call_utf8CodePointType
    \/ Call_hexCharToValue
    \/ Call_hexCodepointToUtf8String
    \/ Call_hexCodepointToUtf8String_otherCase

Spec == Init /\ [][Next]_vars

SpecFourDigits == InitFourDigits /\ [][Next]_vars

TypeOK ==
    /\ pc \in {"char", "int", "str", "hexCharToByte", "utf8CodePointType", "hexCharToValue",
               "hexCodepointToUtf8String", "otherCase"}
    /\ c \in AllChars
    /\ retByte \in AllChars
    /\ retType \in Utf8CPType
    /\ T \in IntegralTypes
    /\ Len(res) <= 4
    /\ \A i \in 1..Len(res) : res[i] \in AllChars
    /\ Len(retValue) <= 1

(***************************************************************************)
(* Reference definitions the properties are stated with: the hex alphabet, *)
(* the value of a digit string, the planes, and UTF-8 as the standard      *)
(* defines it (RFC 3629), all by plain arithmetic.                         *)
(***************************************************************************)
\* the value of a hex digit, -1 for any other character
RefDigit(ch) ==
    IF ch \in 48..57 THEN ch - 48
    ELSE IF ch \in 65..70 THEN ch - 55
    ELSE IF ch \in 97..102 THEN ch - 87
    ELSE -1

IsHexStr(s) == \A i \in 1..Len(s) : RefDigit(s[i]) >= 0

RefDigits(s) == [i \in 1..Len(s) |-> RefDigit(s[i])]

RECURSIVE StripZeros(_)
StripZeros(d) == IF Len(d) > 0 /\ d[1] = 0 THEN StripZeros(Tail(d)) ELSE d

RECURSIVE DigitSum(_, _)
DigitSum(d, n) == IF n = 0 THEN 0 ELSE 16 * DigitSum(d, n - 1) + d[n]

\* the number a string of hex digits denotes, sum of digit_i * 16^(n-1-i),
\* when it is below 16^7; 16^7 stands for every larger number
HexValue(s) ==
    LET d == StripZeros(RefDigits(s))
    IN  IF Len(d) > 7 THEN 16 ^ 7 ELSE DigitSum(d, Len(d))

\* the digits of a string, padded with leading zeros to n nibbles
PadLeft(d, n) == [i \in 1..n |-> IF i <= n - Len(d) THEN 0 ELSE d[i - (n - Len(d))]]

HexDigitChar(v, upper) == IF v < 10 THEN 48 + v ELSE IF upper THEN 55 + v ELSE 87 + v

\* cp written with n hex digits
ToHex(cp, n, upper) == [i \in 1..n |-> HexDigitChar((cp \div (16 ^ (n - i))) % 16, upper)]

IsSurrogate(cp) == cp \in 55296..57343

IsLegalCodePoint(cp) == cp \in 0..1114111 /\ ~IsSurrogate(cp)

RefPlane(cp) ==
    CASE cp \in 0..127 -> "Ascii"
      [] cp \in 128..2047 -> "Latin"
      [] cp \in 2048..55295 -> "MultiLingual"
      [] cp \in 57344..65535 -> "MultiLingual"
      [] cp \in 65536..1114111 -> "Extended"
      [] OTHER -> "Invalid"

\* the UTF-8 encoding of a legal code point, as bytes 0..255
RefUtf8(cp) ==
    IF cp < 128 THEN <<cp>>
    ELSE IF cp < 2048 THEN <<192 + (cp \div 64), 128 + (cp % 64)>>
    ELSE IF cp < 65536 THEN
        <<224 + (cp \div 4096), 128 + ((cp \div 64) % 64), 128 + (cp % 64)>>
    ELSE <<240 + (cp \div 262144), 128 + ((cp \div 4096) % 64), 128 + ((cp \div 64) % 64),
           128 + (cp % 64)>>

IsCont(b) == b \in 128..191

\* a standards-compliant decoder of one encoded code point: the code point,
\* or -1 for an ill-formed sequence (wrong prefix, overlong, surrogate,
\* above 0x10FFFF)
RefDecode(b) ==
    LET v2 == (b[1] - 192) * 64 + (b[2] - 128)
        v3 == (b[1] - 224) * 4096 + (b[2] - 128) * 64 + (b[3] - 128)
        v4 == (b[1] - 240) * 262144 + (b[2] - 128) * 4096 + (b[3] - 128) * 64 + (b[4] - 128)
    IN  IF Len(b) = 1 /\ b[1] \in 0..127 THEN b[1]
        ELSE IF Len(b) = 2 /\ b[1] \in 192..223 /\ IsCont(b[2]) /\ v2 >= 128 THEN v2
        ELSE IF Len(b) = 3 /\ b[1] \in 224..239 /\ IsCont(b[2]) /\ IsCont(b[3])
                /\ v3 >= 2048 /\ ~IsSurrogate(v3) THEN v3
        ELSE IF Len(b) = 4 /\ b[1] \in 240..247 /\ IsCont(b[2]) /\ IsCont(b[3]) /\ IsCont(b[4])
                /\ v4 \in 65536..1114111 THEN v4
        ELSE -1

\* the bytes of a std::string
Bytes(str) == [i \in 1..Len(str) |-> ByteOf(str[i])]

\* hexCodepointToUtf8String has returned
Encoded == pc \in {"hexCodepointToUtf8String", "otherCase"}

\* hexChar is a string hexCodepointToUtf8String takes as a code point
Accepted(s) ==
    /\ Len(s) \in {2, 4, 6, 8}
    /\ IsHexStr(s)
    /\ IsLegalCodePoint(HexValue(s))

(***************************************************************************)
(* The properties.                                                         *)
(***************************************************************************)

\* C1: whenever hexCodepointToUtf8String returns a non-empty string, its
\* bytes are the standard UTF-8 encoding of the value the input denotes,
\* whatever number of leading zero digits the input carries.
C1_AcceptedInputEncodesCodePoint ==
    (Encoded /\ res # <<>>) =>
        /\ Accepted(hexChar)
        /\ Bytes(res) = RefUtf8(HexValue(hexChar))

\* C2: hexCodepointToUtf8String returns the empty string exactly when the
\* input is empty, of odd length, longer than 8 characters, holds a
\* character that is no hex digit, or denotes a surrogate or a value above
\* 0x10FFFF (8 digit strings with the top bit set included); every other
\* input gives 1 to 4 bytes.
C2_EmptyExactlyOnInvalidInput ==
    Encoded =>
        /\ res = <<>> <=>
             \/ Len(hexChar) = 0
             \/ Len(hexChar) % 2 = 1
             \/ Len(hexChar) > 8
             \/ ~IsHexStr(hexChar)
             \/ IsSurrogate(HexValue(hexChar))
             \/ HexValue(hexChar) > 1114111
        /\ res # <<>> => Len(res) \in 1..4

\* an 8 digit input with the top bit set has been rejected
C2_Witness ==
    /\ pc = "hexCodepointToUtf8String"
    /\ hexChar = <<56, 48, 48, 48, 48, 48, 48, 48>>
    /\ res = <<>>

\* hexChar is hex(cp) at the width the design assumes: 4 digits up to
\* 0xFFFF, 6 digits from 0x10000 on
AtDesignWidth(s) ==
    /\ IsHexStr(s)
    /\ IsLegalCodePoint(HexValue(s))
    /\ Len(s) = (IF HexValue(s) <= 65535 THEN 4 ELSE 6)
    /\ \E upper \in BOOLEAN : s = ToHex(HexValue(s), Len(s), upper)

\* C3: round trip: for a legal code point cp written as hex(cp) at the
\* design width, a reference decoder applied to the bytes
\* hexCodepointToUtf8String returns gives cp again.
C3_RoundTripAtDesignWidth ==
    (Encoded /\ AtDesignWidth(hexChar)) => RefDecode(Bytes(res)) = HexValue(hexChar)

\* "d7ff", the last code point before the surrogates, has been encoded
\* to ED 9F BF
C3_Witness ==
    /\ pc = "hexCodepointToUtf8String"
    /\ hexChar = <<100, 55, 102, 102>>
    /\ AtDesignWidth(hexChar)
    /\ Bytes(res) = <<237, 159, 191>>

\* C4: for a valid hex string of any accepted length (2, 4, 6 or 8 digits)
\* denoting a code point in 0x80..0x7FF, hexCodepointToUtf8String returns
\* exactly 2 bytes, 110xxxxx then 10xxxxxx, that a reference decoder turns
\* back into the code point.
C4_LatinTwoBytesDecode ==
    (Encoded /\ Accepted(hexChar) /\ HexValue(hexChar) \in 128..2047) =>
        /\ Len(res) = 2
        /\ ByteOf(res[1]) \in 192..223
        /\ ByteOf(res[2]) \in 128..191
        /\ RefDecode(Bytes(res)) = HexValue(hexChar)

\* C5: for every integral T of 8, 16, 32 or 64 bits and every string of
\* hex digits of even length n, 2 <= n <= sizeof(T)*2, hexCharToValue<T>
\* returns the sum of digit_i * 16^(n-1-i), a non-negative value of T:
\* the digits themselves, zero extended to the width of T.
C5_ParsedValueIsDigitSum ==
    (/\ pc = "hexCharToValue"
     /\ IsHexStr(hexChar)
     /\ Len(hexChar) % 2 = 0
     /\ Len(hexChar) >= 2
     /\ Len(hexChar) <= T.size * 2) =>
        /\ retValue = <<PadLeft(RefDigits(hexChar), T.size * 2)>>
        /\ T.signed => retValue[1][1] < 8

\* C6: utf8CodePointType returns, for every int32_t, the plane of the
\* decision table: Ascii 0x00..0x7F, Latin 0x80..0x7FF, MultiLingual
\* 0x800..0xD7FF and 0xE000..0xFFFF, Extended 0x10000..0x10FFFF, Invalid
\* for everything else.
C6_ClassifierFollowsTable ==
    pc = "utf8CodePointType" =>
        /\ retType = RefPlane(codepoint)
        /\ retType \in Utf8CPType

\* the first surrogate has been classified
C6_Witness ==
    /\ pc = "utf8CodePointType"
    /\ codepoint = 55296
    /\ retType = "Invalid"

\* C7: hexCharToByte maps '0'..'9' to 0..9, 'a'..'f' and 'A'..'F' to
\* 10..15 and every other character to -1, and two calls of
\* hexCodepointToUtf8String on strings that differ only in the case of
\* the letters a-f return identical results.
C7_CaseInsensitive ==
    /\ pc = "hexCharToByte" => retByte = RefDigit(c)
    /\ pc = "otherCase" => res = prevRes

\* C8: the output has the shape of the plane of the value the input
\* denotes: 1 byte below 0x80 for Ascii, 2 bytes led by 110xxxxx for Latin,
\* 3 bytes led by 1110xxxx for MultiLingual, 4 bytes led by 11110xxx for
\* Extended, and every byte after the first is 10xxxxxx.
C8_OutputShape ==
    (Encoded /\ res # <<>>) =>
        LET plane == RefPlane(HexValue(hexChar))
            lead == ByteOf(res[1])
        IN  /\ plane = "Ascii" => (Len(res) = 1 /\ lead \in 0..127)
            /\ plane = "Latin" => (Len(res) = 2 /\ lead \in 192..223)
            /\ plane = "MultiLingual" => (Len(res) = 3 /\ lead \in 224..239)
            /\ plane = "Extended" => (Len(res) = 4 /\ lead \in 240..247)
            /\ plane # "Invalid"
            /\ \A i \in 2..Len(res) : ByteOf(res[i]) \in 128..191

\* "00000800", MultiLingual with four leading zeros, has been encoded
C8_Witness ==
    /\ pc = "hexCodepointToUtf8String"
    /\ hexChar = <<48, 48, 48, 48, 48, 56, 48, 48>>
    /\ Len(res) = 3

\* C9: for a 6 digit string d0..d5 with a value in 0x10000..0x10FFFF the
\* result is the four bytes of the packing table, and the lead byte is
\* 11110 followed by bits 20..18 of the code point.
C9_ExtendedPacking ==
    (/\ Encoded
     /\ Len(hexChar) = 6
     /\ IsHexStr(hexChar)
     /\ HexValue(hexChar) \in 65536..1114111) =>
        LET d == RefDigits(hexChar)
        IN  /\ Bytes(res) = << 240 + (d[1] % 2) * 4 + (d[2] \div 4),
                               128 + (d[2] % 4) * 16 + d[3],
                               128 + d[4] * 4 + (d[5] \div 4),
                               128 + (d[5] % 4) * 16 + d[6] >>
            /\ ByteOf(res[1]) = 240 + (HexValue(hexChar) \div 262144)

\* "10FFFF" has been encoded to F4 8F BF BF
C9_Witness ==
    /\ pc = "hexCodepointToUtf8String"
    /\ hexChar = <<49, 48, 70, 70, 70, 70>>
    /\ Bytes(res) = <<244, 143, 191, 191>>

\* C10: hexCodepointToUtf8String reads no position of hexChar at or beyond
\* its length.
C10_NoReadPastTheEnd ==
    Encoded => oobRead = {}

====
